---- MODULE Spec2Model ----
(***************************************************************************)
(* Model of src/api/socket.js: the socket.io room and turn-based combat    *)
(* coordinator.  Every socket handler and the periodic clean-up run to     *)
(* completion on one event loop, so each one is one atomic action.         *)
(*                                                                         *)
(* Each handler is written twice over the same code: an operator on_x that *)
(* computes, from the current state and the message, the stores the        *)
(* handler leaves behind and the list of messages it emits, and the action *)
(* x that installs those stores.  The emitted messages are outputs, not    *)
(* state; the properties read them from on_x.                              *)
(***************************************************************************)
EXTENDS Integers, Sequences, FiniteSets, TLC

\* ------------------------------------------------------------- bounds
NConn == 2          \* socket ids that may ever connect (an id is never reused)
NCodes == 1         \* size of the room-code space (26^4 in the program)
MaxTicks == 2       \* how often the clock advances
MaxRound == 2       \* cap on gameState.round
MaxWins == 1        \* cap on gameState.player1Wins / player2Wins
Grain == 10         \* Math.random() draws only the damages that are multiples of Grain
NLobbyCodes == 2    \* size of the room-code space when no game_action is sent

\* ------------------------------------------------------------- program constants
Null == 0                   \* player.room: null
FullHealth == 100
GraceWindow == 300000       \* 5 * 60 * 1000
Period == 60000             \* 60 * 1000
DefaultDamage == 10

Conn == 1..NConn
Codes == 1..NCodes
Unissued == NCodes + 1      \* a roomCode a client sends that generateRoomCode never returns
Seats == {"player1", "player2"}
Labels == {"player1", "player2"}                 \* data.player
Kinds == {"punch", "kick", "special", "block"}   \* data.action

\* what a client may send: any of the codes, or a string that is no code
PayloadCodes == Codes \cup {Unissued}
Payloads == [roomCode : PayloadCodes]
ActionPayloads == [roomCode : PayloadCodes, player : Labels, action : Kinds]

VARIABLES
    sockets,    \* [Conn -> {"idle","open","closed"}]: life of each socket
    players,    \* keys of the players Map
    playerObj,  \* the player object made for each socket id
    rooms,      \* the rooms Map: a function whose domain is the live codes
    groups,     \* socket.io broadcast groups each socket has joined
    now         \* Date.now()

vars == <<sockets, players, playerObj, rooms, groups, now>>

\* ------------------------------------------------------------- helpers
Max(a, b) == IF a >= b THEN a ELSE b

\* Array.prototype.filter(p => p.id !== id)
RECURSIVE FilterOut(_, _)
FilterOut(list, id) ==
    IF list = <<>> THEN <<>>
    ELSE IF Head(list) = id THEN FilterOut(Tail(list), id)
         ELSE <<Head(list)>> \o FilterOut(Tail(list), id)

\* rooms.set(code, room) / rooms.delete(code)
MapSet(map, key, val) == [k \in (DOMAIN map) \cup {key} |-> IF k = key THEN val ELSE map[k]]
MapDelete(map, key) == [k \in (DOMAIN map) \ {key} |-> map[k]]

\* socket.emit(name, payload) and io.to(code).emit(name, payload); rcpt is the
\* set of sockets in the group when the message is sent
ToSocket(id, name, payload) ==
    [to |-> "socket", target |-> id, name |-> name, payload |-> payload]
ToRoom(code, name, payload, grp) ==
    [to |-> "room", target |-> code, name |-> name, payload |-> payload,
     rcpt |-> {c \in Conn : code \in grp[c]}]

NoPayload == [empty |-> TRUE]

\* what a handler leaves behind: the stores and the messages it emitted
Outcome(pl, po, rm, grp, em) ==
    [players |-> pl, playerObj |-> po, rooms |-> rm, groups |-> grp, emitted |-> em]

\* an early return: nothing written, em emitted
Return(em) == Outcome(players, playerObj, rooms, groups, em)

Install(out) ==
    /\ players' = out.players
    /\ playerObj' = out.playerObj
    /\ rooms' = out.rooms
    /\ groups' = out.groups

NewPlayer(id) == [id |-> id, room |-> Null, isPlayer1 |-> FALSE]

NewGameState ==
    [player1Health |-> FullHealth, player2Health |-> FullHealth,
     gameActive |-> FALSE, currentTurn |-> "player1", round |-> 1,
     player1Wins |-> 0, player2Wins |-> 0]

\* a plausible slip: the "Avoid duplicates" test is missing
GenerateRoomCodeUnchecked(space) == space

\* generateRoomCode over a code space: a random code, drawn again while the store has it
GenerateRoomCodeFrom(space) == space \ DOMAIN rooms

GenerateRoomCode == GenerateRoomCodeFrom(Codes)

Init ==
    /\ sockets = [c \in Conn |-> "idle"]
    /\ players = {}
    /\ playerObj = [c \in Conn |-> NewPlayer(c)]
    /\ rooms = <<>>
    /\ groups = [c \in Conn |-> {}]
    /\ now = 0

\* io.on('connection')
connection(c) ==
    /\ sockets[c] = "idle"
    /\ sockets' = [sockets EXCEPT ![c] = "open"]
    /\ players' = players \cup {c}
    /\ playerObj' = [playerObj EXCEPT ![c] = NewPlayer(c)]
    /\ UNCHANGED <<rooms, groups, now>>

\* socket.on('create_room'), roomCode being what generateRoomCode returned
on_create_room(c, roomCode) ==
    IF c \notin players THEN Return(<<>>)
    ELSE LET room == [code |-> roomCode, players |-> <<c>>,
                      gameState |-> NewGameState, lastActivity |-> now]
             grp == [groups EXCEPT ![c] = @ \cup {roomCode}]
         IN Outcome(players,
                    [playerObj EXCEPT ![c].room = roomCode, ![c].isPlayer1 = TRUE],
                    MapSet(rooms, roomCode, room),
                    grp,
                    << ToSocket(c, "room_created", [roomCode |-> roomCode]),
                       ToRoom(roomCode, "player_joined",
                              [players |-> room.players, playerId |-> c], grp) >>)

create_room(c) ==
    /\ sockets[c] = "open"
    /\ \E roomCode \in GenerateRoomCode : Install(on_create_room(c, roomCode))
    /\ UNCHANGED <<sockets, now>>

\* the same handler, generateRoomCode drawing from the larger code space
LobbyCodes == 1..NLobbyCodes
LobbyPayloads == [roomCode : LobbyCodes]

lobby_create_room(c) ==
    /\ sockets[c] = "open"
    /\ \E roomCode \in GenerateRoomCodeFrom(LobbyCodes) :
         Install(on_create_room(c, roomCode))
    /\ UNCHANGED <<sockets, now>>

\* a plausible slip: the capacity test lets a third player in
RoomFullOffByOne(room) == Len(room.players) > 2

\* room.players.length >= 2
RoomFull(room) == Len(room.players) >= 2

\* socket.on('join_room')
on_join_room(c, data) ==
    IF c \notin players THEN Return(<<>>)
    ELSE IF data.roomCode \notin DOMAIN rooms
    THEN Return(<< ToSocket(c, "room_not_found", NoPayload) >>)
    ELSE IF RoomFull(rooms[data.roomCode])
    THEN Return(<< ToSocket(c, "room_full", NoPayload) >>)
    ELSE LET room == [rooms[data.roomCode] EXCEPT
                         !.players = Append(@, c), !.lastActivity = now]
             grp == [groups EXCEPT ![c] = @ \cup {data.roomCode}]
         IN Outcome(players,
                    [playerObj EXCEPT ![c].room = data.roomCode, ![c].isPlayer1 = FALSE],
                    MapSet(rooms, data.roomCode, room),
                    grp,
                    << ToSocket(c, "room_joined", [roomCode |-> data.roomCode]),
                       ToRoom(data.roomCode, "player_joined",
                              [players |-> room.players, playerId |-> c], grp) >>)

join_room(c, data) ==
    /\ sockets[c] = "open"
    /\ Install(on_join_room(c, data))
    /\ UNCHANGED <<sockets, now>>

\* a plausible slip: the reset forgets the health values
ResetOnLeaveFlagOnly(gs) == [gs EXCEPT !.gameActive = FALSE]

\* leave_room's "Reset game if one player leaves"
ResetOnLeave(gs) ==
    [gs EXCEPT !.gameActive = FALSE,
               !.player1Health = FullHealth, !.player2Health = FullHealth]

\* socket.on('leave_room')
on_leave_room(c, data) ==
    IF c \notin players \/ playerObj[c].room = Null THEN Return(<<>>)
    ELSE LET code == playerObj[c].room
             po == [playerObj EXCEPT ![c].room = Null]
             grp == [groups EXCEPT ![c] = @ \ {data.roomCode}]
         IN IF code \notin DOMAIN rooms THEN Outcome(players, po, rooms, grp, <<>>)
            ELSE LET left == [rooms[code] EXCEPT !.players = FilterOut(@, c),
                                                 !.lastActivity = now]
                 IN IF Len(left.players) = 0
                    THEN Outcome(players, po, MapDelete(rooms, code), grp, <<>>)
                    ELSE Outcome(players, po,
                                 MapSet(rooms, code,
                                        [left EXCEPT !.gameState = ResetOnLeave(@)]),
                                 grp,
                                 << ToRoom(code, "player_left",
                                           [players |-> left.players], groups) >>)

leave_room(c, data) ==
    /\ sockets[c] = "open"
    /\ Install(on_leave_room(c, data))
    /\ UNCHANGED <<sockets, now>>

\* what start_game and restart_game write to gameState
Started(gs) ==
    [gs EXCEPT !.gameActive = TRUE, !.player1Health = FullHealth,
               !.player2Health = FullHealth, !.currentTurn = "player1"]

\* a plausible slip: restart_game forgets round++
RestartedSameRound(gs) ==
    [gs EXCEPT !.player1Health = FullHealth, !.player2Health = FullHealth,
               !.gameActive = TRUE, !.currentTurn = "player1"]

Restarted(gs) ==
    [gs EXCEPT !.player1Health = FullHealth, !.player2Health = FullHealth,
               !.gameActive = TRUE, !.currentTurn = "player1", !.round = @ + 1]

\* socket.on('start_game')
on_start_game(c, data) ==
    IF data.roomCode \notin DOMAIN rooms THEN Return(<<>>)
    ELSE IF Len(rooms[data.roomCode].players) # 2 THEN Return(<<>>)
    ELSE LET room == [rooms[data.roomCode] EXCEPT !.gameState = Started(@),
                                                   !.lastActivity = now]
         IN Outcome(players, playerObj, MapSet(rooms, data.roomCode, room), groups,
                    << ToRoom(data.roomCode, "game_start",
                              [players |-> room.players, gameState |-> room.gameState],
                              groups) >>)

start_game(c, data) ==
    /\ sockets[c] = "open"
    /\ Install(on_start_game(c, data))
    /\ UNCHANGED <<sockets, now>>

\* socket.on('restart_game')
on_restart_game(c, data) ==
    IF data.roomCode \notin DOMAIN rooms THEN Return(<<>>)
    ELSE IF Len(rooms[data.roomCode].players) # 2 THEN Return(<<>>)
    ELSE LET room == [rooms[data.roomCode] EXCEPT !.gameState = Restarted(@),
                                                   !.lastActivity = now]
         IN Outcome(players, playerObj, MapSet(rooms, data.roomCode, room), groups,
                    << ToRoom(data.roomCode, "game_start",
                              [players |-> room.players, gameState |-> room.gameState],
                              groups) >>)

restart_game(c, data) ==
    /\ sockets[c] = "open"
    /\ LET out == on_restart_game(c, data)
       IN /\ \A code \in DOMAIN out.rooms : out.rooms[code].gameState.round <= MaxRound
          /\ Install(out)
    /\ UNCHANGED <<sockets, now>>

\* Math.floor(Math.random() * n) + base: Math.random() is in [0, 1), so the
\* floor is one of 0 .. n-1
RandomInt(n, base) == base..(base + n - 1)

\* the damage switch: every value the code can assign to damage
DamageSwitch(action) ==
    CASE action = "punch" -> RandomInt(15, 5)
      [] action = "kick" -> RandomInt(20, 10)
      [] action = "special" -> RandomInt(25, 15)
      [] OTHER -> {DefaultDamage}

\* Math.floor(Math.random() * n) + base: the damages the model lets it draw
Draws(n, base) == {d \in base..(base + n - 1) : d % Grain = 0}

\* the damage switch: the values data.action can deal
DamageOf(action) ==
    CASE action = "punch" -> Draws(15, 5)
      [] action = "kick" -> Draws(20, 10)
      [] action = "special" -> Draws(25, 15)
      [] OTHER -> {DefaultDamage}

\* a plausible slip: the subtraction is not clamped at 0
ApplyDamageUnclamped(gs, label, damage) ==
    IF label = "player1"
    THEN [gs EXCEPT !.player2Health = @ - damage]
    ELSE [gs EXCEPT !.player1Health = @ - damage]

\* Apply damage: the health the payload's player label selects goes down
ApplyDamage(gs, label, damage) ==
    IF label = "player1"
    THEN [gs EXCEPT !.player2Health = Max(0, @ - damage)]
    ELSE [gs EXCEPT !.player1Health = Max(0, @ - damage)]

\* Switch turns
SwitchTurn(gs, label) ==
    [gs EXCEPT !.currentTurn = IF label = "player1" THEN "player2" ELSE "player1"]

\* a plausible slip: the seat that fell is named the winner
WinnerIsLoser(gs) ==
    IF gs.player1Health <= 0 THEN "player1"
    ELSE IF gs.player2Health <= 0 THEN "player2"
    ELSE "none"

\* a plausible slip: winner is never assigned
WinnerNeverSet(gs) == "none"

\* Check for winner: the value of winner, "none" for null
Winner(gs) ==
    IF gs.player1Health <= 0 THEN "player2"
    ELSE IF gs.player2Health <= 0 THEN "player1"
    ELSE "none"

\* a plausible slip: the round is scored but the game stays active
RecordWinnerStillActive(gs) ==
    IF gs.player1Health <= 0 THEN [gs EXCEPT !.player2Wins = @ + 1]
    ELSE IF gs.player2Health <= 0 THEN [gs EXCEPT !.player1Wins = @ + 1]
    ELSE gs

\* Check for winner: what the two branches write
RecordWinner(gs) ==
    IF gs.player1Health <= 0
    THEN [gs EXCEPT !.player2Wins = @ + 1, !.gameActive = FALSE]
    ELSE IF gs.player2Health <= 0
    THEN [gs EXCEPT !.player1Wins = @ + 1, !.gameActive = FALSE]
    ELSE gs

\* a plausible slip: every sender is taken for seat A
ExpectedTurnAlwaysFirst(room, id) == "player1"

\* isPlayer1 ? 'player1' : 'player2'
ExpectedTurn(room, id) ==
    IF Head(room.players) = id THEN "player1" ELSE "player2"

\* a plausible slip: the gameActive test is missing
IgnoredWithoutActiveCheck(c, data) ==
    \/ data.roomCode \notin DOMAIN rooms
    \/ c \notin players

\* game_action's two silent returns and its turn check
Ignored(c, data) ==
    \/ data.roomCode \notin DOMAIN rooms
    \/ ~rooms[data.roomCode].gameState.gameActive
    \/ c \notin players

OutOfTurn(c, data) ==
    /\ ~Ignored(c, data)
    /\ rooms[data.roomCode].gameState.currentTurn # ExpectedTurn(rooms[data.roomCode], c)

Accepted(c, data) == ~Ignored(c, data) /\ ~OutOfTurn(c, data)

\* socket.on('game_action'), damage being what the switch computed
on_game_action(c, data, damage) ==
    IF Ignored(c, data) THEN Return(<<>>)
    ELSE IF OutOfTurn(c, data)
    THEN Return(<< ToSocket(c, "error", [message |-> "Not your turn!"]) >>)
    ELSE LET old == rooms[data.roomCode]
             hit == SwitchTurn(ApplyDamage(old.gameState, data.player, damage),
                               data.player)
             gs == RecordWinner(hit)
         IN Outcome(players, playerObj,
                    MapSet(rooms, data.roomCode,
                           [old EXCEPT !.gameState = gs, !.lastActivity = now]),
                    groups,
                    << ToRoom(data.roomCode, "game_action",
                              [action |-> data.action, player |-> data.player,
                               damage |-> damage], groups),
                       ToRoom(data.roomCode, "game_update",
                              [player1Health |-> gs.player1Health,
                               player2Health |-> gs.player2Health,
                               currentTurn |-> gs.currentTurn,
                               winner |-> Winner(hit),
                               player1Wins |-> gs.player1Wins,
                               player2Wins |-> gs.player2Wins], groups) >>)

game_action(c, data) ==
    /\ sockets[c] = "open"
    /\ \E damage \in DamageOf(data.action) :
         LET out == on_game_action(c, data, damage)
         IN /\ \A code \in DOMAIN out.rooms :
                 /\ out.rooms[code].gameState.player1Wins <= MaxWins
                 /\ out.rooms[code].gameState.player2Wins <= MaxWins
            /\ Install(out)
    /\ UNCHANGED <<sockets, now>>

\* socket.on('disconnect'): socket.io has already taken the socket out of its groups
on_disconnect(c) ==
    LET grp == [groups EXCEPT ![c] = {}]
        pl == players \ {c}
    IN IF c \notin players \/ playerObj[c].room = Null
          \/ playerObj[c].room \notin DOMAIN rooms
       THEN Outcome(pl, playerObj, rooms, grp, <<>>)
       ELSE LET code == playerObj[c].room
                left == [rooms[code] EXCEPT !.players = FilterOut(@, c),
                                            !.lastActivity = now]
            IN IF Len(left.players) = 0
               THEN Outcome(pl, playerObj, MapDelete(rooms, code), grp, <<>>)
               ELSE Outcome(pl, playerObj,
                            MapSet(rooms, code,
                                   [left EXCEPT !.gameState.gameActive = FALSE]),
                            grp,
                            << ToRoom(code, "player_left",
                                      [players |-> left.players], grp) >>)

disconnect(c) ==
    /\ sockets[c] = "open"
    /\ sockets' = [sockets EXCEPT ![c] = "closed"]
    /\ Install(on_disconnect(c))
    /\ UNCHANGED now

\* a plausible slip: the sweep forgets to look at the player list
StaleWhateverPlayers(room) == now - room.lastActivity > GraceWindow

\* room.players.length === 0 && now - (room.lastActivity || 0) > 5 * 60 * 1000
Stale(room) == Len(room.players) = 0 /\ now - room.lastActivity > GraceWindow

\* the store one sweep of the clean-up leaves behind
Swept == [code \in {k \in DOMAIN rooms : ~Stale(rooms[k])} |-> rooms[code]]

\* setInterval(..., 60 * 1000): the clean-up of empty rooms
reaper ==
    /\ rooms' = Swept
    /\ UNCHANGED <<sockets, players, playerObj, groups, now>>

\* time passes between two callbacks.  The clock is sampled one grace window
\* (five clean-up periods) at a time, so that an idle time equal to the window
\* and one beyond it both occur.
Tick ==
    /\ now < MaxTicks * GraceWindow
    /\ now' = now + 5 * Period
    /\ UNCHANGED <<sockets, players, playerObj, rooms, groups>>

Next ==
    \/ \E c \in Conn : connection(c)
    \/ \E c \in Conn : create_room(c)
    \/ \E c \in Conn, data \in Payloads : join_room(c, data)
    \/ \E c \in Conn, data \in Payloads : leave_room(c, data)
    \/ \E c \in Conn, data \in Payloads : start_game(c, data)
    \/ \E c \in Conn, data \in ActionPayloads : game_action(c, data)
    \/ \E c \in Conn, data \in Payloads : restart_game(c, data)
    \/ \E c \in Conn : disconnect(c)
    \/ reaper
    \/ Tick

Spec == Init /\ [][Next]_vars

\* The lobby alone: the same handlers when no socket sends game_action, which
\* leaves room for a second room code.  The clean-up timer keeps firing and the
\* clock keeps moving.
LobbyNext ==
    \/ \E c \in Conn : connection(c)
    \/ \E c \in Conn : lobby_create_room(c)
    \/ \E c \in Conn, data \in LobbyPayloads : join_room(c, data)
    \/ \E c \in Conn, data \in LobbyPayloads : leave_room(c, data)
    \/ \E c \in Conn, data \in LobbyPayloads : start_game(c, data)
    \/ \E c \in Conn, data \in LobbyPayloads : restart_game(c, data)
    \/ \E c \in Conn : disconnect(c)
    \/ reaper
    \/ Tick

SpecLobby == Init /\ [][LobbyNext]_vars /\ WF_vars(reaper) /\ WF_vars(Tick)

\* ------------------------------------------------------------- vocabulary of the properties
Open == {c \in Conn : sockets[c] = "open"}
Live == DOMAIN rooms
GS(code) == rooms[code].gameState
OtherSeat(seat) == IF seat = "player1" THEN "player2" ELSE "player1"
HealthOf(gs, seat) == IF seat = "player1" THEN gs.player1Health ELSE gs.player2Health
WinsOf(gs, seat) == IF seat = "player1" THEN gs.player1Wins ELSE gs.player2Wins
Stores(out) == <<out.players, out.playerObj, out.rooms, out.groups>>
StoresNow == <<players, playerObj, rooms, groups>>
Range(list) == {list[i] : i \in DOMAIN list}
\* the seats a socket holds in a room: index 0 is seat A, index 1 seat B
SeatsOf(c, room) ==
    {seat \in Seats : \E i \in DOMAIN room.players :
        room.players[i] = c /\ seat = (IF i = 1 THEN "player1" ELSE "player2")}
\* the list without every entry of c
Without(list, c) == SelectSeq(list, LAMBDA p : p # c)
\* every accepted game_action the state allows: sender, payload and damage drawn
AllDamages == UNION {DamageOf(kind) : kind \in Kinds}
AcceptedInputs ==
    {in \in [c : Open, data : ActionPayloads, damage : AllDamages] :
        /\ in.damage \in DamageOf(in.data.action)
        /\ Accepted(in.c, in.data)}
After(in) == on_game_action(in.c, in.data, in.damage)
GSAfter(in) == After(in).rooms[in.data.roomCode].gameState
GSBefore(in) == rooms[in.data.roomCode].gameState

\* ------------------------------------------------------------- C1
JoinFullInputs ==
    {in \in [c : Open, data : Payloads] :
        in.data.roomCode \in Live /\ Len(rooms[in.data.roomCode].players) = 2}

\* C1: every room's player list has at most 2 entries, and a join_room naming a
\* room that has 2 players emits only a private room_full to the caller, writes
\* nothing to the room store or the player records, and broadcasts nothing.
C1_RoomHoldsAtMostTwo ==
    /\ \A code \in Live : Len(rooms[code].players) <= 2
    /\ \A in \in JoinFullInputs :
         LET out == on_join_room(in.c, in.data)
         IN /\ out.emitted = << ToSocket(in.c, "room_full", NoPayload) >>
            /\ Stores(out) = StoresNow

\* a full room that a connection other than its two players asks to join
C1_Witness ==
    \E in \in JoinFullInputs :
        /\ in.c \notin Range(rooms[in.data.roomCode].players)
        /\ on_join_room(in.c, in.data).emitted[1].name = "room_full"

\* ------------------------------------------------------------- C2
\* C2: after every accepted game_action the room's currentTurn is the seat other
\* than the one it held before, whatever the payload's action and player fields.
C2_TurnAlternates ==
    \A in \in AcceptedInputs :
        GSAfter(in).currentTurn = OtherSeat(GSBefore(in).currentTurn)

\* ------------------------------------------------------------- C3
\* C3: every accepted game_action leaves the health of the seat whose turn it
\* was unchanged and sets the other seat's health to max(0, health - damage).
C3_DamageHitsOpponent ==
    \A in \in AcceptedInputs :
        LET actor == GSBefore(in).currentTurn
            target == OtherSeat(actor)
        IN /\ HealthOf(GSAfter(in), actor) = HealthOf(GSBefore(in), actor)
           /\ HealthOf(GSAfter(in), target)
                = Max(0, HealthOf(GSBefore(in), target) - in.damage)

\* ------------------------------------------------------------- C4
OutOfTurnInputs ==
    {in \in [c : Open, data : ActionPayloads] :
        /\ in.data.roomCode \in Live
        /\ GS(in.data.roomCode).gameActive
        /\ Len(rooms[in.data.roomCode].players) = 2
        /\ SeatsOf(in.c, rooms[in.data.roomCode]) # {}
        /\ GS(in.data.roomCode).currentTurn \notin SeatsOf(in.c, rooms[in.data.roomCode])}

\* C4: a game_action from a connection seated in an active 2-player room, sent
\* while currentTurn is a seat it does not hold, emits only the private error
\* 'Not your turn!' and writes nothing: health, turn, active flag, win counters
\* and lastActivity stay as they were and nothing is broadcast.
C4_OutOfTurnRejected ==
    \A in \in OutOfTurnInputs : \A damage \in DamageOf(in.data.action) :
        LET out == on_game_action(in.c, in.data, damage)
        IN /\ out.emitted = << ToSocket(in.c, "error", [message |-> "Not your turn!"]) >>
           /\ Stores(out) = StoresNow

\* seat B moves while it is seat A's turn, after the clock has moved on
C4_Witness ==
    \E in \in OutOfTurnInputs :
        /\ GS(in.data.roomCode).currentTurn = "player1"
        /\ rooms[in.data.roomCode].lastActivity < now
        /\ on_game_action(in.c, in.data, DefaultDamage).emitted[1].name = "error"

\* ------------------------------------------------------------- C5
\* C5: a room whose gameActive is true has exactly 2 players and both health
\* values above 0.
C5_ActiveMeansTwoAlive ==
    \A code \in Live :
        GS(code).gameActive =>
            /\ Len(rooms[code].players) = 2
            /\ GS(code).player1Health > 0
            /\ GS(code).player2Health > 0

\* a round has been won: a health is 0, the flag is down, the win is counted
C5_Witness ==
    \E code \in Live :
        /\ ~GS(code).gameActive
        /\ GS(code).player1Health = 0 \/ GS(code).player2Health = 0
        /\ GS(code).player1Wins + GS(code).player2Wins > 0

\* ------------------------------------------------------------- C6
\* C6: both health values of every room are integers in 0..100.
C6_HealthInRange ==
    \A code \in Live :
        /\ GS(code).player1Health \in 0..FullHealth
        /\ GS(code).player2Health \in 0..FullHealth

\* a blow larger than the health it lands on has been clamped to 0
C6_Witness ==
    \E in \in AcceptedInputs : \E seat \in Seats :
        /\ HealthOf(GSBefore(in), seat) < in.damage
        /\ HealthOf(GSAfter(in), seat) = 0

\* ------------------------------------------------------------- C7
\* the winner the handler reports in game_update
Declared(in) == After(in).emitted[2].payload.winner

\* C7: in every accepted game_action exactly one seat, the defender, takes the
\* damage.  If the damage is at least the defender's health, that health becomes
\* 0, gameActive becomes false, the declared winner is the defender's opponent,
\* whose win counter goes up by 1 while the defender's stays.  If the defender's
\* health stays above 0, no winner is declared, no win counter changes and
\* gameActive stays true.
C7_LethalBlowEndsRound ==
    \A in \in AcceptedInputs :
        \E def \in Seats :
            LET att == OtherSeat(def)
                old == GSBefore(in)
                new == GSAfter(in)
            IN /\ HealthOf(new, att) = HealthOf(old, att)
               /\ HealthOf(new, def) < HealthOf(old, def)
               /\ in.damage >= HealthOf(old, def) =>
                    /\ HealthOf(new, def) = 0
                    /\ ~new.gameActive
                    /\ Declared(in) = att
                    /\ WinsOf(new, att) = WinsOf(old, att) + 1
                    /\ WinsOf(new, def) = WinsOf(old, def)
               /\ HealthOf(new, def) > 0 =>
                    /\ HealthOf(new, def) = HealthOf(old, def) - in.damage
                    /\ Declared(in) = "none"
                    /\ new.player1Wins = old.player1Wins
                    /\ new.player2Wins = old.player2Wins
                    /\ new.gameActive

\* a lethal blow: it is at least the health it lands on, and a winner is declared
C7_Witness ==
    \E in \in AcceptedInputs : \E def \in Seats :
        /\ HealthOf(GSAfter(in), def) < HealthOf(GSBefore(in), def)
        /\ in.damage >= HealthOf(GSBefore(in), def)
        /\ Declared(in) = OtherSeat(def)

\* ------------------------------------------------------------- C8
InactiveInputs ==
    {in \in [c : Open, data : ActionPayloads] :
        in.data.roomCode \notin Live \/ ~GS(in.data.roomCode).gameActive}

LeaveInputs ==
    {in \in [c : Open, data : Payloads] :
        /\ playerObj[in.c].room \in Live
        /\ in.c \in Range(rooms[playerObj[in.c].room].players)}

\* C9: leave_room from a member takes the caller out of the room's list; if the
\* list is then empty the room is deleted in the same step; otherwise player_left
\* with the remaining list is broadcast to the room, both health values are 100,
\* gameActive is false, and win counters and round are as before.
C9_LeaveRemovesAndResets ==
    \A in \in LeaveInputs :
        LET code == playerObj[in.c].room
            rest == Without(rooms[code].players, in.c)
            out == on_leave_room(in.c, in.data)
        IN IF rest = <<>>
           THEN code \notin DOMAIN out.rooms
           ELSE /\ code \in DOMAIN out.rooms
                /\ out.rooms[code].players = rest
                /\ Len(out.emitted) = 1
                /\ out.emitted[1].to = "room"
                /\ out.emitted[1].target = code
                /\ out.emitted[1].name = "player_left"
                /\ out.emitted[1].payload = [players |-> rest]
                /\ out.rooms[code].gameState.player1Health = FullHealth
                /\ out.rooms[code].gameState.player2Health = FullHealth
                /\ ~out.rooms[code].gameState.gameActive
                /\ out.rooms[code].gameState.player1Wins = GS(code).player1Wins
                /\ out.rooms[code].gameState.player2Wins = GS(code).player2Wins
                /\ out.rooms[code].gameState.round = GS(code).round

\* a player walks out of a running round in which both seats have been hit,
\* and the other player stays
C9_Witness ==
    \E in \in LeaveInputs :
        LET code == playerObj[in.c].room
        IN /\ GS(code).gameActive
           /\ GS(code).player1Health < FullHealth
           /\ GS(code).player2Health < FullHealth
           /\ Without(rooms[code].players, in.c) # <<>>
           /\ on_leave_room(in.c, in.data).rooms[code].gameState.player1Health = FullHealth

\* ------------------------------------------------------------- C10
\* C10: after leave_room from a connection whose record names a room, the record
\* has room = null and the connection is out of that room's broadcast group,
\* whatever roomCode the payload carries.
C10_LeaverOutOfGroup ==
    \A c \in Open : \A data \in Payloads :
        playerObj[c].room # Null =>
            LET out == on_leave_room(c, data)
            IN /\ out.playerObj[c].room = Null
               /\ playerObj[c].room \notin out.groups[c]
\* ------------------------------------------------------------- C11
\* a member of a room: the record names the room and the room lists the caller
DisconnectInputs ==
    {c \in Open : /\ playerObj[c].room \in Live
                  /\ c \in Range(rooms[playerObj[c].room].players)}
\* a broadcast without its recipients: name, room and payload
Sent(em) == [i \in DOMAIN em |-> <<em[i].to, em[i].target, em[i].name, em[i].payload>>]

\* C11: from the same state, the room store and the broadcasts after a member
\* disconnects equal those after that member sends leave_room for its room; the
\* disconnected player is also removed from the registry.
C11_DisconnectLikeLeave ==
    \A c \in DisconnectInputs :
        LET gone == on_disconnect(c)
            left == on_leave_room(c, [roomCode |-> playerObj[c].room])
        IN /\ gone.rooms = left.rooms
           /\ Sent(gone.emitted) = Sent(left.emitted)
           /\ gone.players = left.players \ {c}
\* ------------------------------------------------------------- C12
\* the rooms the claim says a sweep deletes: no players, idle for more than the window
Doomed ==
    {code \in Live : /\ Len(rooms[code].players) = 0
                     /\ now - rooms[code].lastActivity > GraceWindow}

\* C12: a sweep of the reaper deletes exactly the rooms that have zero players
\* and a lastActivity more than the grace window old: every such room goes, and
\* a room with a player, or one idle for no longer than the window, stays as it is.
C12_SweepDeletesExactlyIdleEmpty ==
    /\ DOMAIN Swept = Live \ Doomed
    /\ \A code \in DOMAIN Swept : Swept[code] = rooms[code]

\* a sweep finds a room that has been idle for longer than the window and still
\* has a player, and keeps it
C12_Witness ==
    \E code \in Live :
        /\ Len(rooms[code].players) >= 1
        /\ now - rooms[code].lastActivity > GraceWindow
        /\ code \in DOMAIN Swept
\* ------------------------------------------------------------- C13
CreateInputs == [c : Open, roomCode : GenerateRoomCodeFrom(LobbyCodes)]

\* C13: create_room allocates a code that is the code of no room in the store,
\* so every room already there stays as it is, and each room is stored under
\* the code it carries.
C13_CreateNeverOverwrites ==
    /\ \A code \in Live : rooms[code].code = code
    /\ \A in \in CreateInputs :
         LET out == on_create_room(in.c, in.roomCode)
         IN /\ in.roomCode \notin Live
            /\ \A code \in Live : out.rooms[code] = rooms[code]
            /\ DOMAIN out.rooms = Live \cup {in.roomCode}
            /\ out.rooms[in.roomCode].code = in.roomCode

\* a room is created while another one is in the store
C13_Witness ==
    \E in \in CreateInputs :
        /\ Live # {}
        /\ Cardinality(DOMAIN on_create_room(in.c, in.roomCode).rooms) = 2

\* ------------------------------------------------------------- C14
StartInputs == [c : Open, data : Payloads]
\* the one broadcast of game_start to the room, carrying the room's new state
IsGameStart(em, code, room) ==
    /\ Len(em) = 1
    /\ em[1].to = "room" /\ em[1].target = code /\ em[1].name = "game_start"
    /\ em[1].payload = [players |-> room.players, gameState |-> room.gameState]
\* nothing but the named room's combat state and its lastActivity may differ
OnlyCombatTouched(out, code) ==
    /\ out.players = players /\ out.playerObj = playerObj /\ out.groups = groups
    /\ DOMAIN out.rooms = Live
    /\ \A k \in Live \ {code} : out.rooms[k] = rooms[k]
    /\ out.rooms[code].players = rooms[code].players
    /\ out.rooms[code].code = rooms[code].code

\* C14: on a room of exactly 2 players start_game sets both healths to 100,
\* gameActive to true and currentTurn to 'player1', keeps round and the win
\* counters, and broadcasts game_start to the room; restart_game does the same
\* and adds 1 to round.  On a missing room or one without exactly 2 players
\* both events change nothing and emit nothing.
C14_StartAndRestart ==
    \A in \in StartInputs :
        LET code == in.data.roomCode
            started == on_start_game(in.c, in.data)
            restarted == on_restart_game(in.c, in.data)
        IN IF code \in Live /\ Len(rooms[code].players) = 2
           THEN LET fresh == [GS(code) EXCEPT !.player1Health = 100,
                                              !.player2Health = 100,
                                              !.gameActive = TRUE,
                                              !.currentTurn = "player1"]
                IN /\ started.rooms[code].gameState = fresh
                   /\ restarted.rooms[code].gameState
                        = [fresh EXCEPT !.round = GS(code).round + 1]
                   /\ OnlyCombatTouched(started, code)
                   /\ OnlyCombatTouched(restarted, code)
                   /\ IsGameStart(started.emitted, code, started.rooms[code])
                   /\ IsGameStart(restarted.emitted, code, restarted.rooms[code])
           ELSE /\ Stores(started) = StoresNow /\ started.emitted = <<>>
                /\ Stores(restarted) = StoresNow /\ restarted.emitted = <<>>

\* a 2-player room that is to be started has a spent round behind it: a health
\* below 100, the turn on 'player2', a win on the board
C14_Witness ==
    \E in \in StartInputs :
        /\ in.data.roomCode \in Live
        /\ Len(rooms[in.data.roomCode].players) = 2
        /\ GS(in.data.roomCode).player1Health < 100
        /\ GS(in.data.roomCode).currentTurn = "player2"
        /\ GS(in.data.roomCode).player2Wins = 1
        /\ on_restart_game(in.c, in.data).rooms[in.data.roomCode].gameState.round = 2

\* ------------------------------------------------------------- C15
RejectedInputs ==
    {in \in [c : Open, data : ActionPayloads, damage : AllDamages] :
        /\ in.damage \in DamageOf(in.data.action)
        /\ ~Accepted(in.c, in.data)}

\* C15: an accepted game_action makes exactly two room broadcasts, in this
\* order: game_action{action, player, damage}, then game_update whose healths,
\* currentTurn and win counters are the stored combat state after the action
\* and whose winner is non-null exactly when the action set gameActive false.
\* A rejected game_action makes neither broadcast.
C15_TwoBroadcastsInOrder ==
    /\ \A in \in AcceptedInputs :
         LET em == After(in).emitted
             gs == GSAfter(in)
         IN /\ Len(em) = 2
            /\ \A i \in 1..2 : em[i].to = "room" /\ em[i].target = in.data.roomCode
            /\ em[1].name = "game_action"
            /\ em[1].payload = [action |-> in.data.action, player |-> in.data.player,
                                damage |-> in.damage]
            /\ em[2].name = "game_update"
            /\ em[2].payload.player1Health = gs.player1Health
            /\ em[2].payload.player2Health = gs.player2Health
            /\ em[2].payload.currentTurn = gs.currentTurn
            /\ em[2].payload.player1Wins = gs.player1Wins
            /\ em[2].payload.player2Wins = gs.player2Wins
            /\ (em[2].payload.winner # "none") <=> ~gs.gameActive
    /\ \A in \in RejectedInputs :
         \A i \in DOMAIN After(in).emitted : After(in).emitted[i].to # "room"

\* an accepted action that ends the round reaches both sockets of the room
\* with a winner in its game_update
C15_Witness ==
    \E in \in AcceptedInputs :
        /\ After(in).emitted[2].name = "game_update"
        /\ After(in).emitted[2].payload.winner # "none"
        /\ Cardinality(After(in).emitted[2].rcpt) = 2
        /\ ~GSAfter(in).gameActive

\* ------------------------------------------------------------- C16
\* the ranges as claimed
ClaimedDamages(action) ==
    CASE action = "punch" -> 5..20
      [] action = "kick" -> 10..30
      [] action = "special" -> 15..40
      [] OTHER -> {10}

\* C16: the damages an accepted action can deal are exactly the inclusive range
\* of its kind, punch 5..20, kick 10..30, special 15..40, both endpoints
\* attainable; any other kind deals 10.
C16_DamageRanges ==
    \A c \in Open, data \in ActionPayloads :
        Accepted(c, data) => DamageSwitch(data.action) = ClaimedDamages(data.action)

\* ------------------------------------------------------------- C17
EveryoneGone == \A c \in Conn : sockets[c] = "closed"

\* C17: once every connection has disconnected, the room store eventually
\* becomes empty, the reaper sweeping and the clock advancing fairly.
C17_RoomsReclaimed == EveryoneGone ~> (Live = {})
\* ------------------------------------------------------------- C18
\* C18: every entry of a room's list is a registered connection whose room
\* field is that room's code; a connection is in at most one list and at most
\* once in it; a registered connection whose room field is a live room's code
\* is in that room's list.
C18_MembershipConsistent ==
    /\ \A code \in Live : \A i \in DOMAIN rooms[code].players :
         LET c == rooms[code].players[i]
         IN /\ c \in players
            /\ playerObj[c].room = code
            /\ \A j \in DOMAIN rooms[code].players :
                 j # i => rooms[code].players[j] # c
            /\ \A other \in Live \ {code} : c \notin Range(rooms[other].players)
    /\ \A c \in players :
         playerObj[c].room \in Live => c \in Range(rooms[playerObj[c].room].players)

\* ------------------------------------------------------------- C19
\* C19: the player at index 0 of a room's list has isPlayer1 = true and the
\* player at index 1 has isPlayer1 = false.
C19_SeatFlagMatchesIndex ==
    \A code \in Live : \A i \in DOMAIN rooms[code].players :
        playerObj[rooms[code].players[i]].isPlayer1 = (i = 1)

\* ------------------------------------------------------------- C20
OutsiderInputs ==
    {in \in [c : Open, data : ActionPayloads, damage : AllDamages] :
        /\ in.damage \in DamageOf(in.data.action)
        /\ in.data.roomCode \in Live
        /\ in.c \notin Range(rooms[in.data.roomCode].players)}
\* the outcome keeps the room's combat state and broadcasts nothing to the room
Untouched(out, code) ==
    /\ out.rooms[code].gameState = GS(code)
    /\ \A i \in DOMAIN out.emitted :
         ~(out.emitted[i].to = "room" /\ out.emitted[i].target = code)

\* C20: a start_game, restart_game or game_action from a connection that is
\* not in the named room's list leaves that room's healths, currentTurn,
\* gameActive, round and win counters as they are and broadcasts nothing to it.
C20_OnlyMembersAct ==
    \A in \in OutsiderInputs :
        LET code == in.data.roomCode
            rc == [roomCode |-> code]
        IN /\ Untouched(on_start_game(in.c, rc), code)
           /\ Untouched(on_restart_game(in.c, rc), code)
           /\ Untouched(on_game_action(in.c, in.data, in.damage), code)
====
